---- MODULE Spec2Model ----
(***************************************************************************)
(* A model of the lwApi client (src/apiClient.go): client construction     *)
(* from a viper configuration (New, santizeConfig) and the three call      *)
(* shapes CallRaw, Call and CallInto over one HTTP round trip.             *)
(*                                                                         *)
(* JSON documents on the wire are sequences of lexical tokens:             *)
(* json.Marshal is modelled as an encoder to tokens and json.Unmarshal as  *)
(* a recursive descent parser over them, so encoding and decoding are      *)
(* computed, not assumed.                                                  *)
(*                                                                         *)
(* The repository also holds the client's earlier form, package            *)
(* lwInternalApi (src/unnamed/part_001, and part_000 with a process-wide   *)
(* configuration), whose only call style is Call; it is modelled as        *)
(* InternalCall.                                                           *)
(*                                                                         *)
(* Spec is the caller that makes one call at a time, each call one step;   *)
(* ConcSpec is two goroutines calling the same client at once, each call   *)
(* statement by statement.                                                 *)
(***************************************************************************)
EXTENDS Integers, Sequences, FiniteSets, TLC

VARIABLES
    config,       \* the viper configuration the caller passed to New (NoConfig before)
    client,       \* the *Client that New returned (NoClient before New, or on error)
    newErr,       \* the error that New returned
    call,         \* the inputs of the last call: op, method, params, transport outcome
    wire,         \* the requests handed to httpClient.Do during the last call
    hookLog,      \* the hook invocations of the last call, with their arguments
    result,       \* what the last call returned (or that it panicked)
    into,         \* the caller's LWAPIRes target of CallInto, reused across calls
    goroutines    \* the locals of each goroutine that is inside a call on the client

vars == <<config, client, newErr, call, wire, hookLog, result, into, goroutines>>

----------------------------------------------------------------------------
(* JSON values.  Every value is a record with the same three fields so that *)
(* values of different JSON types can be compared: t is the type, s the     *)
(* scalar's text, m the members of an object or array as <<[k, v]>>.        *)

JNull == [t |-> "null", s |-> "", m |-> <<>>]
JStr(x) == [t |-> "string", s |-> x, m |-> <<>>]
JNum(x) == [t |-> "number", s |-> x, m |-> <<>>]
JBool(x) == [t |-> "bool", s |-> x, m |-> <<>>]
JArr(members) == [t |-> "array", s |-> "", m |-> members]
JObj(members) == [t |-> "object", s |-> "", m |-> members]
\* a Go value json.Marshal cannot encode (a func or a chan)
GoFunc == [t |-> "func", s |-> "", m |-> <<>>]

Member(k, v) == [k |-> k, v |-> v]

\* The object keys of the model in the byte order encoding/json sorts map keys by.
KeyOrder ==
    <<"error", "error_class", "foo", "full_message", "name", "params", "uniq_id">>

Keys == {KeyOrder[i] : i \in 1..Len(KeyOrder)}

KeyRank(k) == CHOOSE i \in 1..Len(KeyOrder) : KeyOrder[i] = k

\* The string contents of the model.
Strings ==
    Keys \cup {"", "LW::Exception", "bad", "Bad thing happened", "bar", "X", "zoneA"}

NumTokens == {"5"}

Quote(x) == "\"" \o x \o "\""

StrTokens == {Quote(x) : x \in Strings}

Unquote(tk) == CHOOSE x \in Strings : Quote(x) = tk

----------------------------------------------------------------------------
(* map[string]interface{}: members kept in key order, one member per key.   *)

HasKey(members, k) == \E i \in 1..Len(members) : members[i].k = k

Lookup(members, k) == members[CHOOSE i \in 1..Len(members) : members[i].k = k].v

\* m[k] = v on a map: replaces the member with key k or inserts it in key order.
MapPut(members, k, v) ==
    LET below == SelectSeq(members, LAMBDA e : KeyRank(e.k) < KeyRank(k))
        above == SelectSeq(members, LAMBDA e : KeyRank(e.k) > KeyRank(k))
    IN  below \o <<Member(k, v)>> \o above

----------------------------------------------------------------------------
(* json.Marshal: the tokens of a value; an error for an unsupported type.  *)

RECURSIVE Encodable(_)
Encodable(v) ==
    /\ v.t # "func"
    /\ \A i \in 1..Len(v.m) : Encodable(v.m[i].v)

RECURSIVE Tokens(_)
RECURSIVE MemberTokens(_, _, _)
MemberTokens(members, i, isObject) ==
    IF i > Len(members) THEN <<>>
    ELSE (IF i > 1 THEN <<",">> ELSE <<>>)
         \o (IF isObject THEN <<Quote(members[i].k), ":">> ELSE <<>>)
         \o Tokens(members[i].v)
         \o MemberTokens(members, i + 1, isObject)

Tokens(v) ==
    CASE v.t = "null" -> <<"null">>
      [] v.t = "string" -> <<Quote(v.s)>>
      [] v.t = "number" -> <<v.s>>
      [] v.t = "bool" -> <<v.s>>
      [] v.t = "array" -> <<"[">> \o MemberTokens(v.m, 1, FALSE) \o <<"]">>
      [] v.t = "object" -> <<"{">> \o MemberTokens(v.m, 1, TRUE) \o <<"}">>

Marshal(v) ==
    IF Encodable(v) THEN [ok |-> TRUE, b |-> Tokens(v)]
    ELSE [ok |-> FALSE, b |-> <<>>]

----------------------------------------------------------------------------
(* json.Unmarshal into interface{}: a recursive descent parser.  A parse   *)
(* result is [ok, v, next]: next is the index of the first unread token.   *)

ParseFail == [ok |-> FALSE, v |-> JNull, next |-> 0]
ParseOk(v, next) == [ok |-> TRUE, v |-> v, next |-> next]

RECURSIVE ParseValue(_, _)
RECURSIVE ParseMembers(_, _, _, _)
RECURSIVE ParseElements(_, _, _, _)

\* the members after "{" (or after a ","): "key" : value, then "," or "}"
ParseMembers(toks, i, acc, first) ==
    IF i > Len(toks) THEN ParseFail
    ELSE IF first /\ toks[i] = "}" THEN ParseOk(JObj(acc), i + 1)
    ELSE IF ~(toks[i] \in StrTokens /\ i + 1 <= Len(toks) /\ toks[i + 1] = ":")
    THEN ParseFail
    ELSE LET r == ParseValue(toks, i + 2)
         IN  IF ~r.ok \/ r.next > Len(toks) THEN ParseFail
             ELSE LET acc2 == MapPut(acc, Unquote(toks[i]), r.v)
                  IN  CASE toks[r.next] = "}" -> ParseOk(JObj(acc2), r.next + 1)
                        [] toks[r.next] = "," ->
                             ParseMembers(toks, r.next + 1, acc2, FALSE)
                        [] OTHER -> ParseFail

\* the elements after "[" (or after a ","): value, then "," or "]"
ParseElements(toks, i, acc, first) ==
    IF i > Len(toks) THEN ParseFail
    ELSE IF first /\ toks[i] = "]" THEN ParseOk(JArr(acc), i + 1)
    ELSE LET r == ParseValue(toks, i)
         IN  IF ~r.ok \/ r.next > Len(toks) THEN ParseFail
             ELSE LET acc2 == Append(acc, Member("", r.v))
                  IN  CASE toks[r.next] = "]" -> ParseOk(JArr(acc2), r.next + 1)
                        [] toks[r.next] = "," ->
                             ParseElements(toks, r.next + 1, acc2, FALSE)
                        [] OTHER -> ParseFail

ParseValue(toks, i) ==
    IF i > Len(toks) THEN ParseFail
    ELSE CASE toks[i] = "null" -> ParseOk(JNull, i + 1)
           [] toks[i] \in {"true", "false"} -> ParseOk(JBool(toks[i]), i + 1)
           [] toks[i] \in NumTokens -> ParseOk(JNum(toks[i]), i + 1)
           [] toks[i] \in StrTokens -> ParseOk(JStr(Unquote(toks[i])), i + 1)
           [] toks[i] = "{" -> ParseMembers(toks, i + 1, <<>>, TRUE)
           [] toks[i] = "[" -> ParseElements(toks, i + 1, <<>>, TRUE)
           [] OTHER -> ParseFail

\* json.Unmarshal(data, &v) with v an interface{}: the whole input is one value.
Unmarshal(data) ==
    LET r == ParseValue(data, 1)
    IN  IF r.ok /\ r.next = Len(data) + 1 THEN [ok |-> TRUE, v |-> r.v]
        ELSE [ok |-> FALSE, v |-> JNull]

----------------------------------------------------------------------------
(* Errors.  One record shape for every error value the package returns:    *)
(* kind says which return statement produced it, the other fields carry    *)
(* what that error's text or value holds.                                  *)

\* type LWAPIError struct { ErrorMsg, ErrorClass, ErrorFullMsg string }
LWAPIError(class, msg, full) ==
    [ErrorMsg |-> msg, ErrorClass |-> class, ErrorFullMsg |-> full]

ZeroLWAPIError == LWAPIError("", "", "")

Error(kind, code, url, field, file, api) ==
    [kind |-> kind, code |-> code, url |-> url, field |-> field, file |-> file,
     api |-> api, value |-> "", resp |-> JNull]

NoError == Error("nil", 0, "", "", "", ZeroLWAPIError)

\* fmt.Errorf("%s is missing from config file: [%s]", field, ConfigFileUsed())
MissingError(field, file) == Error("missing", 0, "", field, file, ZeroLWAPIError)
\* the error of json.Marshal
EncodeError == Error("encode", 0, "", "", "", ZeroLWAPIError)
\* the error of http.NewRequest
RequestError == Error("request", 0, "", "", "", ZeroLWAPIError)
\* the error of httpClient.Do
TransportError == Error("transport", 0, "", "", "", ZeroLWAPIError)
\* fmt.Errorf("Bad HTTP response code [%d] from [%s]", code, url)
StatusError(code, url) == Error("status", code, url, "", "", ZeroLWAPIError)
\* the error of ioutil.ReadAll
ReadError == Error("read", 0, "", "", "", ZeroLWAPIError)
\* the error of json.Unmarshal (a SyntaxError or an UnmarshalTypeError)
JSONError == Error("json", 0, "", "", "", ZeroLWAPIError)
\* errors.New("endpoint did not return the expected JSON structure")
StructureError == Error("structure", 0, "", "", "", ZeroLWAPIError)
\* an LWAPIError value returned as the error
APIError(e) == Error("LWAPIError", 0, "", "", "", e)
\* the LWAPIRes target returned as the error
TargetError(e) == Error("LWAPIRes", 0, "", "", "", e)
\* lwInternalApi: fmt.Errorf("%s: %+v", value, mapDecodedResp)
ResponseError(value, decoded) ==
    [Error("response", 0, "", "", "", ZeroLWAPIError) EXCEPT
        !.value = value, !.resp = decoded]

----------------------------------------------------------------------------
(* The viper configuration.  An unset string reads as "", an unset int as  *)
(* 0 and an unset bool as false.                                           *)

DefaultTimeout == 20

\* the URLs url.Parse (inside http.NewRequest) rejects
BadURLs == {"%zz"}

Config(username, password, url, timeout, secure, file) ==
    [username |-> username, password |-> password, url |-> url,
     timeout |-> timeout, secure |-> secure, file |-> file]

\* config.GetBool("lwApi.secure")
GetBool_secure(cfg) == cfg.secure = "true"

\* config.GetInt("lwApi.timeout")
GetInt_timeout(cfg) == cfg.timeout

\* santizeConfig without its check of lwApi.url
santizeConfig_NoURLCheck(cfg) ==
    IF cfg.username = "" THEN MissingError("lwApi.username", cfg.file)
    ELSE IF cfg.password = "" THEN MissingError("lwApi.password", cfg.file)
    ELSE NoError

\* func santizeConfig(config *viper.Viper) error
santizeConfig(cfg) ==
    IF cfg.username = "" THEN MissingError("lwApi.username", cfg.file)
    ELSE IF cfg.password = "" THEN MissingError("lwApi.password", cfg.file)
    ELSE IF cfg.url = "" THEN MissingError("lwApi.url", cfg.file)
    ELSE NoError

\* timeout := config.GetInt("lwApi.timeout"); if timeout == 0 { timeout = 20 }
ClientTimeout(cfg) ==
    IF GetInt_timeout(cfg) = 0 THEN DefaultTimeout ELSE GetInt_timeout(cfg)

\* Whether New installs the transport with InsecureSkipVerify: true.
InsecureSkipVerify(cfg) == GetBool_secure(cfg) # TRUE

HTTPClient(cfg) ==
    [Timeout |-> ClientTimeout(cfg), InsecureSkipVerify |-> InsecureSkipVerify(cfg)]

NoConfig == Config("", "", "", 0, "unset", "")

\* New has not returned a client
NoClient ==
    [made |-> FALSE, config |-> NoConfig,
     httpClient |-> [Timeout |-> 0, InsecureSkipVerify |-> FALSE],
     BeforeRequest |-> FALSE, AfterRequest |-> FALSE]

\* Client{config: config, httpClient: httpClient}: both hooks nil
NewClient(cfg) ==
    [made |-> TRUE, config |-> cfg, httpClient |-> HTTPClient(cfg),
     BeforeRequest |-> FALSE, AfterRequest |-> FALSE]

\* func New(config *viper.Viper) (*Client, error)
NewReturn(cfg) ==
    IF santizeConfig(cfg) # NoError
    THEN [client |-> NoClient, err |-> santizeConfig(cfg)]
    ELSE [client |-> NewClient(cfg), err |-> NoError]

----------------------------------------------------------------------------
(* The HTTP round trip.  The transport's behaviour for one request is an   *)
(* outcome: Do fails (doErr), or it returns a response with a status and a *)
(* body whose read may fail (readErr); elapsed is the time Do took.        *)

StatusOK == 200

Outcome(doErr, status, body, readErr, elapsed) ==
    [doErr |-> doErr, status |-> status, body |-> body, readErr |-> readErr,
     elapsed |-> elapsed]

\* params that already have a params key are passed through unwrapped
Envelope_PassThrough(params) ==
    IF params.t = "object" /\ HasKey(params.m, "params") THEN params
    ELSE JObj(<<Member("params", params)>>)

\* args := map[string]interface{}{"params": params}
Envelope(params) == JObj(<<Member("params", params)>>)

\* url := fmt.Sprintf("%s/%s", thisViper.GetString("lwApi.url"), method)
RequestURL(c, method) == c.config.url \o "/" \o method

\* http.NewRequest("POST", url, body) followed by req.SetBasicAuth(username, password)
Request(c, method, body) ==
    [method |-> "POST", url |-> RequestURL(c, method), body |-> body,
     auth |-> [username |-> c.config.username, password |-> c.config.password]]

NoResponse == [status |-> 0, body |-> <<>>]

\* if client.BeforeRequest != nil { client.BeforeRequest(req) }
BeforeCalls(c, req) ==
    IF c.BeforeRequest
    THEN <<[hook |-> "BeforeRequest", req |-> req, resp |-> NoResponse, elapsed |-> 0]>>
    ELSE <<>>

\* if client.AfterRequest != nil { client.AfterRequest(req, resp, elapsed) }
AfterCalls(c, req, out) ==
    IF c.AfterRequest
    THEN <<[hook |-> "AfterRequest", req |-> req,
            resp |-> [status |-> out.status, body |-> out.body],
            elapsed |-> out.elapsed]>>
    ELSE <<>>

\* the request is sent a second time
Do_Retry(req) == <<req, req>>

\* resp, doErr := client.httpClient.Do(req): the requests put on the wire
Do(req) == <<req>>

\* what CallRaw returns: ([]byte, error); nil is a nil byte slice
RawReturn(nil, bytes, err, sent, log) ==
    [nil |-> nil, bytes |-> bytes, err |-> err, wire |-> sent, hookLog |-> log]

\* a body that is not JSON is reported as a failed read
ReadAll_JSONOnly(out) ==
    IF out.readErr \/ ~Unmarshal(out.body).ok THEN [err |-> TRUE, bytes |-> <<>>]
    ELSE [err |-> FALSE, bytes |-> out.body]

\* bsRb, readErr := ioutil.ReadAll(resp.Body)
ReadAll(out) ==
    IF out.readErr THEN [err |-> TRUE, bytes |-> <<>>]
    ELSE [err |-> FALSE, bytes |-> out.body]

\* the status check sits inside the block of the AfterRequest hook
RoundTrip_StatusCheckInHook(c, req, out) ==
    LET before == BeforeCalls(c, req)
        log == before \o AfterCalls(c, req, out)
    IN  IF out.doErr THEN RawReturn(TRUE, <<>>, TransportError, Do(req), before)
        ELSE IF c.AfterRequest /\ out.status # StatusOK
        THEN RawReturn(TRUE, <<>>, StatusError(out.status, req.url), Do(req), log)
        ELSE IF ReadAll(out).err THEN RawReturn(TRUE, <<>>, ReadError, Do(req), log)
        ELSE RawReturn(FALSE, ReadAll(out).bytes, NoError, Do(req), log)

\* Lines 223-250 of CallRaw: the hooks, the round trip, the status check and
\* the read of the body.
RoundTrip(c, req, out) ==
    LET before == BeforeCalls(c, req)
        log == before \o AfterCalls(c, req, out)
    IN  IF out.doErr THEN RawReturn(TRUE, <<>>, TransportError, Do(req), before)
        ELSE IF out.status # StatusOK
        THEN RawReturn(TRUE, <<>>, StatusError(out.status, req.url), Do(req), log)
        ELSE IF ReadAll(out).err THEN RawReturn(TRUE, <<>>, ReadError, Do(req), log)
        ELSE RawReturn(FALSE, ReadAll(out).bytes, NoError, Do(req), log)

\* func (client *Client) CallRaw(method string, params interface{}) ([]byte, error)
CallRaw(c, method, params, out) ==
    LET encoded == Marshal(Envelope(params))
    IN  IF ~encoded.ok THEN RawReturn(TRUE, <<>>, EncodeError, <<>>, <<>>)
        ELSE IF c.config.url \in BadURLs
        THEN RawReturn(TRUE, <<>>, RequestError, <<>>, <<>>)
        ELSE RoundTrip(c, Request(c, method, encoded.b), out)

----------------------------------------------------------------------------
(* Call: decode into interface{} and look for an LWAPIError.               *)

\* what Call returns: (interface{}, error), or a run-time panic
CallReturn(panic, nil, value, err) ==
    [panic |-> panic, nil |-> nil, value |-> value, err |-> err]

\* x.(string) on an interface{} holds only for a JSON string
IsString(members, k) == HasKey(members, k) /\ Lookup(members, k).t = "string"

\* mapDecodedResp, ok := decodedResp.(map[string]interface{})
IsMap(v) == v.t = "object"

\* Lines 129-141 of Call, on the decoded map.
CheckErrorClass(decoded) ==
    IF HasKey(decoded.m, "error_class")
    THEN IF ~IsString(decoded.m, "error_class")
         THEN CallReturn(TRUE, TRUE, JNull, NoError)
         ELSE IF Lookup(decoded.m, "error_class").s # ""
         THEN IF ~IsString(decoded.m, "full_message") \/ ~IsString(decoded.m, "error")
              THEN CallReturn(TRUE, TRUE, JNull, NoError)
              ELSE CallReturn(FALSE, TRUE, JNull,
                       APIError(LWAPIError(Lookup(decoded.m, "error_class").s,
                                           Lookup(decoded.m, "error").s,
                                           Lookup(decoded.m, "full_message").s)))
         ELSE CallReturn(FALSE, FALSE, decoded, NoError)
    ELSE CallReturn(FALSE, FALSE, decoded, NoError)

\* func (client *Client) Call(method string, params interface{}) (interface{}, error)
Call(c, method, params, out) ==
    LET raw == CallRaw(c, method, params, out)
        decodedResp == Unmarshal(raw.bytes)
    IN  IF raw.err # NoError THEN CallReturn(FALSE, TRUE, JNull, raw.err)
        ELSE IF ~decodedResp.ok THEN CallReturn(FALSE, TRUE, JNull, JSONError)
        ELSE IF ~IsMap(decodedResp.v)
        THEN CallReturn(FALSE, TRUE, JNull, StructureError)
        ELSE CheckErrorClass(decodedResp.v)

----------------------------------------------------------------------------
(* lwInternalApi.Call (src/unnamed/part_001): the round trip and the       *)
(* decoding in one function, without hooks.                                *)

\* what lwInternalApi's Call returns, and the requests it sent
InternalReturn(panic, nil, value, err, sent) ==
    [panic |-> panic, nil |-> nil, value |-> value, err |-> err, wire |-> sent]

\* errConditions: the non-empty strings among error_class and error.  The
\* loop ranges over a map, so any of them may be the one it meets first.
ErrConditions(decoded) ==
    {Lookup(decoded.m, k).s :
        k \in {k \in {"error_class", "error"} :
                  IsString(decoded.m, k) /\ Lookup(decoded.m, k).s # ""}}

\* Lines 75-95 of lwInternalApi's Call: every result the function can return
\* for a decoded body.
InternalDecoded(decoded, sent) ==
    IF decoded.t # "object"
    THEN {InternalReturn(TRUE, TRUE, JNull, NoError, sent)}
    ELSE IF ErrConditions(decoded) # {}
    THEN {InternalReturn(FALSE, TRUE, JNull, ResponseError(value, decoded), sent) :
              value \in ErrConditions(decoded)}
    ELSE {InternalReturn(FALSE, FALSE, decoded, NoError, sent)}

\* func (client *Client) Call(method string, params interface{}) (interface{}, error)
\* of package lwInternalApi: every result it can return.
InternalCall(c, method, params, out) ==
    LET encoded == Marshal(Envelope(params))
        req == Request(c, method, encoded.b)
        decodedResp == Unmarshal(out.body)
    IN  IF ~encoded.ok THEN {InternalReturn(FALSE, TRUE, JNull, EncodeError, <<>>)}
        ELSE IF c.config.url \in BadURLs
        THEN {InternalReturn(FALSE, TRUE, JNull, RequestError, <<>>)}
        ELSE IF out.doErr
        THEN {InternalReturn(FALSE, TRUE, JNull, TransportError, Do(req))}
        ELSE IF out.status # StatusOK
        THEN {InternalReturn(FALSE, TRUE, JNull,
                             StatusError(out.status, c.config.url), Do(req))}
        ELSE IF ReadAll(out).err
        THEN {InternalReturn(FALSE, TRUE, JNull, ReadError, Do(req))}
        ELSE IF ~decodedResp.ok
        THEN {InternalReturn(FALSE, TRUE, JNull, JSONError, Do(req))}
        ELSE InternalDecoded(decodedResp.v, Do(req))

----------------------------------------------------------------------------
(* CallInto: decode into the caller's struct, which embeds LWAPIError.     *)

\* a struct like ZoneDetails of the examples, passed by pointer: LWAPIError
\* embedded, and one more string field
Target(e, name) == [LWAPIError |-> e, Name |-> name]

ZeroTarget == Target(ZeroLWAPIError, "")

\* One string field of the target decoded from the member with key k: an
\* absent key and a JSON null leave the field as it was, a string sets it,
\* any other JSON type leaves it and is an UnmarshalTypeError.
FieldValue(members, k, old) ==
    IF IsString(members, k) THEN Lookup(members, k).s ELSE old

FieldMismatch(members, k) ==
    HasKey(members, k) /\ Lookup(members, k).t \notin {"string", "null"}

TargetKeys == {"error", "error_class", "full_message", "name"}

\* json.Unmarshal(data, into) for a pointer to the struct: a syntax error
\* leaves the target untouched; a top-level null is a no-op; any other
\* non-object is a type error; an object fills the fields it can and
\* reports the first mismatch.  (Bodies with duplicate keys are not among
\* the inputs.)
UnmarshalInto(data, target) ==
    LET r == Unmarshal(data)
    IN  IF ~r.ok THEN [err |-> TRUE, into |-> target]
        ELSE IF r.v.t = "null" THEN [err |-> FALSE, into |-> target]
        ELSE IF r.v.t # "object" THEN [err |-> TRUE, into |-> target]
        ELSE [err |-> \E k \in TargetKeys : FieldMismatch(r.v.m, k),
              into |->
                Target(LWAPIError(
                         FieldValue(r.v.m, "error_class", target.LWAPIError.ErrorClass),
                         FieldValue(r.v.m, "error", target.LWAPIError.ErrorMsg),
                         FieldValue(r.v.m, "full_message",
                                    target.LWAPIError.ErrorFullMsg)),
                       FieldValue(r.v.m, "name", target.Name))]

\* HadError looking at the short message instead of the class
HadError_ByMessage(e) == e.ErrorMsg # ""

\* func (e LWAPIError) HadError() bool
HadError(e) == e.ErrorClass # ""

\* what CallInto returns (error), and the target after it
IntoReturn(err, target) == [err |-> err, into |-> target]

\* func (client *Client) CallInto(method string, params interface{}, into LWAPIRes) error
CallInto(c, method, params, out, target) ==
    LET raw == CallRaw(c, method, params, out)
        dec == UnmarshalInto(raw.bytes, target)
    IN  IF raw.err # NoError THEN IntoReturn(raw.err, target)
        ELSE IF dec.err THEN IntoReturn(JSONError, dec.into)
        ELSE IF HadError(dec.into.LWAPIError)
        THEN IntoReturn(TargetError(dec.into.LWAPIError), dec.into)
        ELSE IntoReturn(NoError, dec.into)

----------------------------------------------------------------------------
(* The inputs of the model.                                                *)

\* the largest elapsed time of a round trip, in the model's time unit
MaxElapsed == 1

Usernames == {"", "SUPERDUPERUSER"}
Passwords == {"", "SUPERDUPERPW"}
URLs == {"", "https://api.stormondemand.com"}
ConfigFiles == {"lwApi.toml"}

\* every combination of set and unset required fields, with timeout and secure
\* unset; the complete configuration with secure unset, false and true (this
\* one with a timeout); and a complete configuration whose URL does not parse
Configs ==
    {Config(u, p, a, 0, "unset", f) :
        u \in Usernames, p \in Passwords, a \in URLs, f \in ConfigFiles}
    \cup {Config("SUPERDUPERUSER", "SUPERDUPERPW", "https://api.stormondemand.com",
                 0, b, "lwApi.toml") : b \in {"unset", "false"}}
    \cup {Config("SUPERDUPERUSER", "SUPERDUPERPW", "https://api.stormondemand.com",
                 15, "true", "lwApi.toml")}
    \cup {Config("SUPERDUPERUSER", "SUPERDUPERPW", a, 0, "true", "lwApi.toml") :
              a \in BadURLs}

Methods == {"network/zone/details", "bleed/asset/details"}

UniqID == JObj(<<Member("uniq_id", JStr("X"))>>)

Params == {JNull, JStr("X"), UniqID, Envelope(UniqID), GoFunc}

\* a key the response does not have
Absent == [t |-> "absent", s |-> "", m |-> <<>>]

\* the object with the members that are not Absent, in key order
ObjectOf(members) == JObj(SelectSeq(members, LAMBDA e : e.v # Absent))

ErrorClassValues == {Absent, JStr(""), JStr("LW::Exception"), JNum("5"), JNull}
ErrorValues == {Absent, JStr(""), JStr("bad"), JNum("5")}
FullMessageValues == {Absent, JStr("Bad thing happened"), JNum("5")}

\* the JSON objects a server may answer with
ResponseObjects ==
    {ObjectOf(<<Member("error", e), Member("error_class", c),
                Member("full_message", f)>>) :
        e \in ErrorValues, c \in ErrorClassValues, f \in FullMessageValues}
    \cup {JObj(<<Member("foo", JStr("bar"))>>),
          JObj(<<Member("name", JStr("zoneA"))>>),
          JObj(<<Member("error_class", JStr("LW::Exception")), Member("name", JNum("5"))>>),
          JObj(<<Member("name", JNum("5"))>>),
          JObj(<<Member("foo", JArr(<<Member("", JNum("5"))>>)),
                 Member("name", JNull)>>)}

\* JSON documents that are not objects
NonObjects == {JNull, JStr("X"), JNum("5"), JBool("true"), JArr(<<>>)}

\* bodies that are not JSON: empty, not a JSON token, cut short, a key without
\* a value, two values
InvalidBodies ==
    {<<>>, <<"<html>">>, <<"{", Quote("foo"), ":">>, <<"{", Quote("foo"), "}">>,
     <<"5", "5">>}

\* an error payload whose keys are not in key order
UnorderedBody ==
    <<"{", Quote("full_message"), ":", Quote("Bad thing happened"), ",",
      Quote("error_class"), ":", Quote("LW::Exception"), ",",
      Quote("error"), ":", Quote("bad"), "}">>

Bodies ==
    {Tokens(v) : v \in ResponseObjects \cup NonObjects}
    \cup InvalidBodies \cup {UnorderedBody}

Elapsed == 0..MaxElapsed

\* a failed round trip, a status other than 200 and a success payload, each
\* with every elapsed time
FewOutcomes ==
    {Outcome(TRUE, 0, <<>>, FALSE, e) : e \in Elapsed}
    \cup {Outcome(FALSE, 500, <<"<html>">>, FALSE, e) : e \in Elapsed}
    \cup {Outcome(FALSE, StatusOK, Tokens(JObj(<<Member("foo", JStr("bar"))>>)),
                  FALSE, e) : e \in Elapsed}

\* those, another status, a failed read of the body, and every body
Outcomes ==
    FewOutcomes
    \cup {Outcome(FALSE, 404, <<"<html>">>, FALSE, 0),
          Outcome(FALSE, StatusOK, <<>>, TRUE, 0)}
    \cup {Outcome(FALSE, StatusOK, b, FALSE, 0) : b \in Bodies}

\* The inputs of a call: every method and params against a few outcomes, and
\* every outcome against one method and params.
CallInputs ==
    {[method |-> m, params |-> p, outcome |-> o] :
        m \in Methods, p \in Params, o \in FewOutcomes}
    \cup {[method |-> "network/zone/details", params |-> UniqID, outcome |-> o] :
              o \in Outcomes}

----------------------------------------------------------------------------
(* The state machine: the caller constructs a client, may set its hooks,   *)
(* and calls CallRaw, Call and CallInto on it, one call at a time; between *)
(* two calls it lets go of what the last call returned.                    *)

NoCall ==
    [op |-> "none", method |-> "", params |-> JNull,
     outcome |-> Outcome(TRUE, 0, <<>>, FALSE, 0), before |-> ZeroTarget]

\* the result of a call in one shape for the three call styles
Result(panic, nil, bytes, value, err) ==
    [panic |-> panic, nil |-> nil, bytes |-> bytes, value |-> value, err |-> err]

NoResult == Result(FALSE, TRUE, <<>>, JNull, NoError)

\* the goroutines of the caller that may be inside a call at the same time
Goroutines == {"g1", "g2"}

\* no request built yet
NoRequest ==
    [method |-> "", url |-> "", body |-> <<>>,
     auth |-> [username |-> "", password |-> ""]]

\* The locals of one call: the arguments (method, params, into), the locals
\* of CallRaw (encodedArgs, req, resp with doErr and elapsed), the hook
\* invocations the call made, what CallRaw returned (raw) and what the call
\* returns (ret).  pc is the next statement; outcome is what the transport
\* will do with this call's request.
Locals(pc, op, method, params, outcome) ==
    [pc |-> pc, op |-> op, method |-> method, params |-> params,
     outcome |-> outcome, encodedArgs |-> <<>>, req |-> NoRequest,
     resp |-> NoCall.outcome, log |-> <<>>,
     raw |-> [nil |-> TRUE, bytes |-> <<>>, err |-> NoError],
     into |-> ZeroTarget, ret |-> NoResult]

\* a goroutine that is not inside a call
Idle == Locals("idle", "none", "", JNull, NoCall.outcome)

Init ==
    /\ config = NoConfig
    /\ client = NoClient
    /\ newErr = NoError
    /\ call = NoCall
    /\ wire = <<>>
    /\ hookLog = <<>>
    /\ result = NoResult
    /\ into = ZeroTarget
    /\ goroutines = [t \in Goroutines |-> Idle]

\* apiClient, newErr := lwApi.New(config)
New ==
    /\ ~client.made
    /\ \E cfg \in Configs :
          /\ config' = cfg
          /\ client' = NewReturn(cfg).client
          /\ newErr' = NewReturn(cfg).err
    /\ UNCHANGED <<call, wire, hookLog, result, into, goroutines>>

\* apiClient.BeforeRequest = ...; apiClient.AfterRequest = ... (nil or a function)
SetHooks ==
    /\ client.made
    /\ call = NoCall
    /\ \E b \in BOOLEAN, a \in BOOLEAN :
          client' = [client EXCEPT !.BeforeRequest = b, !.AfterRequest = a]
    /\ UNCHANGED <<config, newErr, call, wire, hookLog, result, into, goroutines>>

DoCallRaw ==
    /\ client.made
    /\ call = NoCall
    /\ \E in \in CallInputs :
          LET r == CallRaw(client, in.method, in.params, in.outcome)
          IN  /\ call' = [op |-> "CallRaw", method |-> in.method, params |-> in.params,
                          outcome |-> in.outcome, before |-> into]
              /\ wire' = r.wire
              /\ hookLog' = r.hookLog
              /\ result' = Result(FALSE, r.nil, r.bytes, JNull, r.err)
    /\ UNCHANGED <<config, client, newErr, into, goroutines>>

DoCall ==
    /\ client.made
    /\ call = NoCall
    /\ \E in \in CallInputs :
          LET raw == CallRaw(client, in.method, in.params, in.outcome)
              r == Call(client, in.method, in.params, in.outcome)
          IN  /\ call' = [op |-> "Call", method |-> in.method, params |-> in.params,
                          outcome |-> in.outcome, before |-> into]
              /\ wire' = raw.wire
              /\ hookLog' = raw.hookLog
              /\ result' = Result(r.panic, r.nil, <<>>, r.value, r.err)
    /\ UNCHANGED <<config, client, newErr, into, goroutines>>

\* the caller passes a new zero-valued struct (fresh) or the one of the last CallInto
DoCallInto ==
    /\ client.made
    /\ call = NoCall
    /\ \E in \in CallInputs, fresh \in BOOLEAN :
          LET target == IF fresh THEN ZeroTarget ELSE into
              raw == CallRaw(client, in.method, in.params, in.outcome)
              r == CallInto(client, in.method, in.params, in.outcome, target)
          IN  /\ call' = [op |-> "CallInto", method |-> in.method, params |-> in.params,
                          outcome |-> in.outcome, before |-> target]
              /\ wire' = raw.wire
              /\ hookLog' = raw.hookLog
              /\ result' = Result(FALSE, TRUE, <<>>, JNull, r.err)
              /\ into' = r.into
    /\ UNCHANGED <<config, client, newErr, goroutines>>

\* got, gotErr := apiClient.Call(method, args) on the lwInternalApi client,
\* which has the same config and httpClient and no hooks
DoInternalCall ==
    /\ client.made
    /\ call = NoCall
    /\ ~client.BeforeRequest
    /\ ~client.AfterRequest
    /\ \E in \in CallInputs :
          \E r \in InternalCall(client, in.method, in.params, in.outcome) :
              /\ call' = [op |-> "InternalCall", method |-> in.method,
                          params |-> in.params, outcome |-> in.outcome,
                          before |-> into]
              /\ wire' = r.wire
              /\ hookLog' = <<>>
              /\ result' = Result(r.panic, r.nil, <<>>, r.value, r.err)
    /\ UNCHANGED <<config, client, newErr, into, goroutines>>

\* the caller is done with the values the call returned; the target stays
Return ==
    /\ call # NoCall
    /\ call' = NoCall
    /\ wire' = <<>>
    /\ hookLog' = <<>>
    /\ result' = NoResult
    /\ UNCHANGED <<config, client, newErr, into, goroutines>>

Next ==
    New \/ SetHooks \/ DoCallRaw \/ DoCall \/ DoCallInto \/ DoInternalCall \/ Return

Spec == Init /\ [][Next]_vars

----------------------------------------------------------------------------
(* Calls issued concurrently on one client.  Each goroutine runs CallRaw,  *)
(* Call or CallInto statement by statement; the steps of different         *)
(* goroutines interleave in any order.  wire holds, in the order of the    *)
(* calls of httpClient.Do, the requests in flight with the goroutine that  *)
(* waits for the answer and what the transport will answer.                *)

ConcOps == {"CallRaw", "Call", "CallInto"}

\* two methods against every kind of outcome, and params that do not encode
ConcInputs ==
    {[method |-> m, params |-> UniqID, outcome |-> o] :
        m \in Methods,
        o \in {Outcome(TRUE, 0, <<>>, FALSE, 0),
               Outcome(FALSE, 500, <<"<html>">>, FALSE, 0),
               Outcome(FALSE, StatusOK, <<"<html>">>, FALSE, 0),
               Outcome(FALSE, StatusOK, Tokens(JObj(<<Member("foo", JStr("bar"))>>)),
                       FALSE, 0),
               Outcome(FALSE, StatusOK, Tokens(JObj(<<Member("name", JStr("zoneA"))>>)),
                       FALSE, 0),
               Outcome(FALSE, StatusOK, UnorderedBody, FALSE, 0)}}
    \cup {[method |-> "bleed/asset/details", params |-> GoFunc,
           outcome |-> Outcome(FALSE, StatusOK, <<"<html>">>, FALSE, 0)]}

\* the clients the goroutines share: constructed by New from a complete
\* configuration or from one whose URL does not parse, then with both hooks
\* set or none
ConcClients ==
    {[NewClient(cfg) EXCEPT !.BeforeRequest = h, !.AfterRequest = h] :
        cfg \in {cfg \in Configs : santizeConfig(cfg) = NoError /\ cfg.secure = "true"},
        h \in BOOLEAN}

ConcInit ==
    /\ \E c \in ConcClients :
          /\ config = c.config
          /\ client = c
    /\ newErr = NoError
    /\ call = NoCall
    /\ wire = <<>>
    /\ hookLog = <<>>
    /\ result = NoResult
    /\ into = ZeroTarget
    /\ goroutines = [t \in Goroutines |-> Idle]

\* the goroutine's locals after one statement
Step(t, locals) == [goroutines EXCEPT ![t] = locals]

\* return nil, err inside CallRaw
RawError(g, err) ==
    [g EXCEPT !.pc = "decode", !.raw = [nil |-> TRUE, bytes |-> <<>>, err |-> err]]

\* go apiClient.CallRaw(method, params), Call(method, params) or
\* CallInto(method, params, &target) with a target of the goroutine's own
Go(t) ==
    /\ goroutines[t].pc = "idle"
    /\ \E op \in ConcOps, in \in ConcInputs :
          goroutines' = Step(t, Locals("marshal", op, in.method, in.params, in.outcome))
    /\ UNCHANGED <<config, client, newErr, call, wire, hookLog, result, into>>

\* Lines 207-213 of CallRaw: args and json.Marshal(args)
MarshalArgs(t) ==
    LET g == goroutines[t]
        encoded == Marshal(Envelope(g.params))
    IN  /\ g.pc = "marshal"
        /\ goroutines' =
             Step(t, IF ~encoded.ok THEN RawError(g, EncodeError)
                     ELSE [g EXCEPT !.pc = "request", !.encodedArgs = encoded.b])
        /\ UNCHANGED <<config, client, newErr, call, wire, hookLog, result, into>>

\* Lines 215-221 of CallRaw: http.NewRequest and req.SetBasicAuth, reading
\* client.config
NewRequest(t) ==
    LET g == goroutines[t]
    IN  /\ g.pc = "request"
        /\ goroutines' =
             Step(t, IF client.config.url \in BadURLs THEN RawError(g, RequestError)
                     ELSE [g EXCEPT !.pc = "before",
                                    !.req = Request(client, g.method, g.encodedArgs)])
        /\ UNCHANGED <<config, client, newErr, call, wire, hookLog, result, into>>

\* Lines 223-225 of CallRaw: the BeforeRequest hook, reading client.BeforeRequest
BeforeRequest(t) ==
    LET g == goroutines[t]
    IN  /\ g.pc = "before"
        /\ goroutines' =
             Step(t, [g EXCEPT !.pc = "do", !.log = g.log \o BeforeCalls(client, g.req)])
        /\ UNCHANGED <<config, client, newErr, call, wire, hookLog, result, into>>

\* the answer goes to the goroutine whose request is first on the wire
Pending_Head(w, t) == 1

\* resp, doErr := client.httpClient.Do(req): Do returns the answer to the
\* request it was given; this is the place of that request on the wire
Pending(w, t) == CHOOSE i \in 1..Len(w) : w[i].g = t

\* Line 229 of CallRaw, first half: client.httpClient.Do(req) sends the request
Send(t) ==
    LET g == goroutines[t]
    IN  /\ g.pc = "do"
        /\ wire' = wire \o [i \in 1..Len(Do(g.req)) |->
                              [g |-> t, req |-> Do(g.req)[i], outcome |-> g.outcome]]
        /\ goroutines' = Step(t, [g EXCEPT !.pc = "wait"])
        /\ UNCHANGED <<config, client, newErr, call, hookLog, result, into>>

\* Lines 229-235 of CallRaw: Do returns, with a response or with doErr
Receive(t) ==
    LET g == goroutines[t]
        resp == wire[Pending(wire, t)].outcome
    IN  /\ g.pc = "wait"
        /\ goroutines' =
             Step(t, IF resp.doErr THEN RawError([g EXCEPT !.resp = resp], TransportError)
                     ELSE [g EXCEPT !.pc = "after", !.resp = resp])
        /\ UNCHANGED <<config, client, newErr, call, wire, hookLog, result, into>>

\* Lines 237-239 of CallRaw: the AfterRequest hook, reading client.AfterRequest
AfterRequest(t) ==
    LET g == goroutines[t]
    IN  /\ g.pc = "after"
        /\ goroutines' =
             Step(t, [g EXCEPT !.pc = "read",
                               !.log = g.log \o AfterCalls(client, g.req, g.resp)])
        /\ UNCHANGED <<config, client, newErr, call, wire, hookLog, result, into>>

\* Lines 241-250 of CallRaw: the status check and ioutil.ReadAll(resp.Body)
ReadBody(t) ==
    LET g == goroutines[t]
    IN  /\ g.pc = "read"
        /\ goroutines' =
             Step(t, IF g.resp.status # StatusOK
                     THEN RawError(g, StatusError(g.resp.status, g.req.url))
                     ELSE IF ReadAll(g.resp).err THEN RawError(g, ReadError)
                     ELSE [g EXCEPT !.pc = "decode",
                                    !.raw = [nil |-> FALSE, bytes |-> ReadAll(g.resp).bytes,
                                             err |-> NoError]])
        /\ UNCHANGED <<config, client, newErr, call, wire, hookLog, result, into>>

\* Lines 115-141 of Call after CallRaw has returned
DecodeCall(raw) ==
    LET decodedResp == Unmarshal(raw.bytes)
    IN  IF raw.err # NoError THEN CallReturn(FALSE, TRUE, JNull, raw.err)
        ELSE IF ~decodedResp.ok THEN CallReturn(FALSE, TRUE, JNull, JSONError)
        ELSE IF ~IsMap(decodedResp.v)
        THEN CallReturn(FALSE, TRUE, JNull, StructureError)
        ELSE CheckErrorClass(decodedResp.v)

\* Lines 170-186 of CallInto after CallRaw has returned
DecodeInto(raw, target) ==
    LET dec == UnmarshalInto(raw.bytes, target)
    IN  IF raw.err # NoError THEN IntoReturn(raw.err, target)
        ELSE IF dec.err THEN IntoReturn(JSONError, dec.into)
        ELSE IF HadError(dec.into.LWAPIError)
        THEN IntoReturn(TargetError(dec.into.LWAPIError), dec.into)
        ELSE IntoReturn(NoError, dec.into)

\* CallRaw has returned to its caller: the goroutine itself, Call or CallInto
Decode(t) ==
    LET g == goroutines[t]
        c == DecodeCall(g.raw)
        i == DecodeInto(g.raw, g.into)
    IN  /\ g.pc = "decode"
        /\ goroutines' =
             Step(t, CASE g.op = "CallRaw" ->
                            [g EXCEPT !.pc = "returned",
                                      !.ret = Result(FALSE, g.raw.nil, g.raw.bytes,
                                                     JNull, g.raw.err)]
                       [] g.op = "Call" ->
                            [g EXCEPT !.pc = "returned",
                                      !.ret = Result(c.panic, c.nil, <<>>, c.value, c.err)]
                       [] g.op = "CallInto" ->
                            [g EXCEPT !.pc = "returned",
                                      !.ret = Result(FALSE, TRUE, <<>>, JNull, i.err),
                                      !.into = i.into])
        /\ UNCHANGED <<config, client, newErr, call, wire, hookLog, result, into>>

\* the goroutine is done with what the call returned; its connection is released
Done(t) ==
    /\ goroutines[t].pc = "returned"
    /\ goroutines' = Step(t, Idle)
    /\ wire' = SelectSeq(wire, LAMBDA e : e.g # t)
    /\ UNCHANGED <<config, client, newErr, call, hookLog, result, into>>

ConcNext ==
    \E t \in Goroutines :
        \/ Go(t)
        \/ MarshalArgs(t)
        \/ NewRequest(t)
        \/ BeforeRequest(t)
        \/ Send(t)
        \/ Receive(t)
        \/ AfterRequest(t)
        \/ ReadBody(t)
        \/ Decode(t)
        \/ Done(t)

ConcSpec == ConcInit /\ [][ConcNext]_vars

----------------------------------------------------------------------------
(* What the properties below speak of.                                     *)

\* the last call's request reached the transport
Reached ==
    /\ call # NoCall
    /\ Encodable(call.params)
    /\ client.config.url \notin BadURLs

\* the transport returned a response
Responded == Reached /\ ~call.outcome.doErr

\* the response had status 200 and its body was read
Delivered ==
    /\ Responded
    /\ call.outcome.status = StatusOK
    /\ ~call.outcome.readErr

\* the response body as a JSON document
Payload == Unmarshal(call.outcome.body)

\* the response body is a JSON object
ObjectPayload == Payload.ok /\ Payload.v.t = "object"

\* the payload has a string at key k
PayloadString(k) == IsString(Payload.v.m, k)

\* the payload's error_class is a non-empty string
ErrorPayload ==
    /\ ObjectPayload
    /\ PayloadString("error_class")
    /\ Lookup(Payload.v.m, "error_class").s # ""

\* the errors that report a body that could not be decoded
DecodeErrors == {JSONError, StructureError}

----------------------------------------------------------------------------
\* C1: on a 200 response whose body is a JSON object, Call (of either
\* package) returns an LWAPIError (class, short message and full message taken
\* from error_class, error and full_message) exactly when error_class is a
\* non-empty string, and in every other case returns the decoded mapping and
\* no error.
C1_ClassifiedByErrorClassAlone ==
    (call.op \in {"Call", "InternalCall"} /\ Delivered /\ ObjectPayload) =>
        IF ErrorPayload
        THEN /\ ~result.panic
             /\ result.nil
             /\ result.err.kind = "LWAPIError"
             /\ result.err.api.ErrorClass = Lookup(Payload.v.m, "error_class").s
             /\ PayloadString("error") =>
                    result.err.api.ErrorMsg = Lookup(Payload.v.m, "error").s
             /\ PayloadString("full_message") =>
                    result.err.api.ErrorFullMsg = Lookup(Payload.v.m, "full_message").s
        ELSE /\ ~result.panic
             /\ ~result.nil
             /\ result.value = Payload.v
             /\ result.err = NoError

\* C2: on a 200 response whose JSON object has error_class but whose
\* full_message or error is absent or not a string, Call returns a decode
\* error: it neither panics nor returns success.  (Stated for an error_class
\* that is a non-empty string, the case in which Call reads the two fields.)
C2_MalformedErrorIsDecodeError ==
    (/\ call.op = "Call"
     /\ Delivered
     /\ ErrorPayload
     /\ ~PayloadString("full_message") \/ ~PayloadString("error")) =>
        /\ ~result.panic
        /\ result.nil
        /\ result.err \in DecodeErrors

\* C3: the client skips certificate verification only when lwApi.secure is
\* set to false; with lwApi.secure unset it verifies.
C3_InsecureOnlyWhenSecureFalse ==
    client.made => (client.httpClient.InsecureSkipVerify => config.secure = "false")

\* C4: New returns a client exactly when username, password and url are all
\* non-empty; otherwise it returns no client and an error naming the first
\* empty field (in the order username, password, url) and the config file.
C4_ConstructedIffComplete ==
    config # NoConfig =>
        LET complete ==
                config.username # "" /\ config.password # "" /\ config.url # ""
            firstEmpty ==
                IF config.username = "" THEN "lwApi.username"
                ELSE IF config.password = "" THEN "lwApi.password"
                ELSE "lwApi.url"
        IN  /\ client.made <=> complete
            /\ complete => (newErr = NoError /\ client.config = config)
            /\ ~complete =>
                   /\ client = NoClient
                   /\ newErr.kind = "missing"
                   /\ newErr.field = firstEmpty
                   /\ newErr.file = config.file

\* New failed on a configuration with a username, and with neither a password
\* nor a url: the error names the password
C4_Witness ==
    /\ ~client.made
    /\ config.username # ""
    /\ config.password = ""
    /\ config.url = ""
    /\ newErr = MissingError("lwApi.password", "lwApi.toml")

Internal_StatusErrorAfterOneRequest ==
    (call.op = "InternalCall" /\ Responded /\ call.outcome.status # StatusOK) =>
        /\ result = Result(FALSE, TRUE, <<>>, JNull,
                           StatusError(call.outcome.status, config.url))
        /\ Len(wire) = 1

\* C6: on a 200 response whose body is not JSON, or is JSON but not an object
\* (array, string, number, boolean, null), Call (of either package) returns a
\* decode error and no value, and does not panic.
C6_NonObjectIsDecodeError ==
    (call.op \in {"Call", "InternalCall"} /\ Delivered) =>
        /\ call.outcome.body \in InvalidBodies =>
               result = Result(FALSE, TRUE, <<>>, JNull, JSONError)
        /\ call.outcome.body \in {Tokens(v) : v \in NonObjects} =>
               /\ ~result.panic
               /\ result.nil
               /\ result.err \in DecodeErrors

\* C6, for lwApi's Call alone, where it holds: a body that is not JSON gives
\* the json error, a JSON body that is no object the structure error.
Call_NonObjectIsDecodeError ==
    (call.op = "Call" /\ Delivered) =>
        /\ call.outcome.body \in InvalidBodies =>
               result = Result(FALSE, TRUE, <<>>, JNull, JSONError)
        /\ call.outcome.body \in {Tokens(v) : v \in NonObjects} =>
               result = Result(FALSE, TRUE, <<>>, JNull, StructureError)

\* the payload holds, at a key of the target, a value of another type than the field
PayloadMismatch == \E k \in TargetKeys : FieldMismatch(Payload.v.m, k)

\* C7 as claimed: when CallInto receives a 200 response with a non-empty
\* error_class, the target holds the payload's error_class and the call
\* returns the target's error state as its error.
C7_ErrorPayloadReturnsTarget ==
    (call.op = "CallInto" /\ Delivered /\ ErrorPayload) =>
        /\ into.LWAPIError.ErrorClass = Lookup(Payload.v.m, "error_class").s
        /\ result.err = TargetError(into.LWAPIError)

\* C7, amended: the same, for a JSON object that decodes into the target
\* without a type mismatch: the target then holds every string the payload has
\* for its fields, and the call returns the target as the error exactly when
\* the target reports error state, which it does for a non-empty error_class.
C7_DecodedTargetDecidesError ==
    (call.op = "CallInto" /\ Delivered /\ ObjectPayload /\ ~PayloadMismatch) =>
        /\ PayloadString("error_class") =>
               into.LWAPIError.ErrorClass = Lookup(Payload.v.m, "error_class").s
        /\ PayloadString("error") =>
               into.LWAPIError.ErrorMsg = Lookup(Payload.v.m, "error").s
        /\ PayloadString("full_message") =>
               into.LWAPIError.ErrorFullMsg = Lookup(Payload.v.m, "full_message").s
        /\ PayloadString("name") => into.Name = Lookup(Payload.v.m, "name").s
        /\ ErrorPayload => into.LWAPIError.ErrorClass # ""
        /\ result.err = IF into.LWAPIError.ErrorClass # ""
                        THEN TargetError(into.LWAPIError)
                        ELSE NoError

\* CallInto got an error payload without a short message and returned the
\* populated target as the error
C7_Witness ==
    /\ call.op = "CallInto"
    /\ Delivered
    /\ call.outcome.body =
           <<"{", Quote("error_class"), ":", Quote("LW::Exception"), ",",
             Quote("full_message"), ":", Quote("Bad thing happened"), "}">>
    /\ call.before = ZeroTarget
    /\ into = Target(LWAPIError("LW::Exception", "", "Bad thing happened"), "")
    /\ result.err = TargetError(into.LWAPIError)

\* C8: on a 200 response CallRaw returns the body unchanged and no error,
\* whatever the body holds: an error payload or a body that is not JSON too.
C8_RawBodyUnchanged ==
    (call.op = "CallRaw" /\ Delivered) =>
        result = Result(FALSE, FALSE, call.outcome.body, JNull, NoError)

\* CallRaw returned a body that is not JSON as a success
C8_Witness ==
    /\ call.op = "CallRaw"
    /\ Delivered
    /\ call.outcome.body = <<"<html>">>
    /\ result.bytes = <<"<html>">>
    /\ result.err = NoError

\* C9: the body of the request is the caller's params wrapped once under the
\* key params, whatever the params are; params that have a params key
\* themselves are wrapped again.
C9_ParamsWrappedOnce ==
    Reached =>
        /\ Len(wire) = 1
        /\ wire[1].body =
               <<"{", Quote("params"), ":">> \o Tokens(call.params) \o <<"}">>
        /\ Unmarshal(wire[1].body) =
               [ok |-> TRUE, v |-> JObj(<<Member("params", call.params)>>)]
        /\ call.params = UniqID =>
               wire[1].body =
                   <<"{", "\"params\"", ":",
                     "{", "\"uniq_id\"", ":", "\"X\"", "}", "}">>
        /\ call.params = JObj(<<Member("params", UniqID)>>) =>
               wire[1].body =
                   <<"{", "\"params\"", ":", "{", "\"params\"", ":",
                     "{", "\"uniq_id\"", ":", "\"X\"", "}", "}", "}">>

\* params that had the params key went out wrapped again
C9_Witness ==
    /\ Reached
    /\ call.params = JObj(<<Member("params", UniqID)>>)
    /\ wire[1].body =
           <<"{", "\"params\"", ":", "{", "\"params\"", ":",
             "{", "\"uniq_id\"", ":", "\"X\"", "}", "}", "}">>

\* C10: the hooks do not alter the call: the request sent and what CallRaw
\* returns are what the same call returns on a client without hooks; a set
\* BeforeRequest is called with the request, and a set AfterRequest with the
\* request, the response and the elapsed time whenever there is a response.
C10_HooksDoNotAlterCall ==
    call.op = "CallRaw" =>
        LET bare == [client EXCEPT !.BeforeRequest = FALSE, !.AfterRequest = FALSE]
            r == CallRaw(bare, call.method, call.params, call.outcome)
            befores == SelectSeq(hookLog, LAMBDA h : h.hook = "BeforeRequest")
            afters == SelectSeq(hookLog, LAMBDA h : h.hook = "AfterRequest")
        IN  /\ wire = r.wire
            /\ result = Result(FALSE, r.nil, r.bytes, JNull, r.err)
            /\ befores =
                   IF client.BeforeRequest /\ Reached
                   THEN <<[hook |-> "BeforeRequest", req |-> wire[1],
                           resp |-> NoResponse, elapsed |-> 0]>>
                   ELSE <<>>
            /\ afters =
                   IF client.AfterRequest /\ Responded
                   THEN <<[hook |-> "AfterRequest", req |-> wire[1],
                           resp |-> [status |-> call.outcome.status,
                                     body |-> call.outcome.body],
                           elapsed |-> call.outcome.elapsed]>>
                   ELSE <<>>

\* CallRaw with both hooks set got a 500 after one time unit: both hooks ran
\* and the status error came back
C10_Witness ==
    /\ call.op = "CallRaw"
    /\ client.BeforeRequest
    /\ client.AfterRequest
    /\ Responded
    /\ call.outcome.status = 500
    /\ call.outcome.elapsed = 1
    /\ Len(hookLog) = 2
    /\ hookLog[2].elapsed = 1
    /\ result.err.kind = "status"


----------------------------------------------------------------------------
\* the requests goroutine t has on the wire
SentBy(w, t) ==
    LET mine == SelectSeq(w, LAMBDA e : e.g = t)
    IN  [i \in 1..Len(mine) |-> mine[i].req]

\* goroutine t's call has returned and what it returned, the requests it sent
\* and the hook invocations it made are those of the same call run alone on
\* the client against the same transport outcome
AsIfAlone(t) ==
    LET g == goroutines[t]
        raw == CallRaw(client, g.method, g.params, g.outcome)
        c == Call(client, g.method, g.params, g.outcome)
        i == CallInto(client, g.method, g.params, g.outcome, ZeroTarget)
    IN  /\ g.pc = "returned"
        /\ SentBy(wire, t) = raw.wire
        /\ g.log = raw.hookLog
        /\ g.op = "CallRaw" => g.ret = Result(FALSE, raw.nil, raw.bytes, JNull, raw.err)
        /\ g.op = "Call" => g.ret = Result(c.panic, c.nil, <<>>, c.value, c.err)
        /\ g.op = "CallInto" =>
              /\ g.ret = Result(FALSE, TRUE, <<>>, JNull, i.err)
              /\ g.into = i.into

\* C11: for any interleaving of calls issued concurrently on the same client,
\* each call that has returned returned what it would return if run alone
\* against the same transport outcome (and sent the same requests and made
\* the same hook invocations); every step changes the locals of one call
\* only; and no step changes the client, whose configuration and transport
\* handle stay those New gave it.
C11_ConcurrentCallsAsIfAlone ==
    /\ [](\A t \in Goroutines : goroutines[t].pc = "returned" => AsIfAlone(t))
    /\ [](client.config = config /\ client.httpClient = HTTPClient(config))
    /\ [][/\ client' = client
          /\ \E t \in Goroutines :
                \A u \in Goroutines \ {t} : goroutines'[u] = goroutines[u]]_vars

\* g1's call has returned a decoded success payload while g2, whose request
\* for another method went on the wire first and will be answered with an
\* error status, is still waiting inside Do
C11_Witness ==
    /\ AsIfAlone("g1")
    /\ goroutines["g1"].op = "Call"
    /\ goroutines["g1"].ret.err = NoError
    /\ ~goroutines["g1"].ret.nil
    /\ goroutines["g2"].pc = "wait"
    /\ goroutines["g2"].method # goroutines["g1"].method
    /\ goroutines["g2"].outcome.status = 500
    /\ Len(wire) = 2
    /\ wire[1].g = "g2"
    /\ client.BeforeRequest


----------------------------------------------------------------------------
\* the last call was a CallInto answered with a success payload: a JSON
\* object without error_class whose members fit the target's fields
SuccessInto ==
    /\ call.op = "CallInto"
    /\ Delivered
    /\ ObjectPayload
    /\ ~HasKey(Payload.v.m, "error_class")
    /\ ~PayloadMismatch

\* C12: the result of CallInto depends only on the current response, not on
\* what the target held before: when a target that an earlier CallInto left
\* in the error state (its response was an error payload) is passed again
\* and the response is a success payload without error_class, the call
\* returns no error and the target reports no error state.
C12_ReusedTargetReportsCurrentResponse ==
    (SuccessInto /\ HadError(call.before.LWAPIError)) =>
        /\ result.err = NoError
        /\ ~HadError(into.LWAPIError)

\* With a target that reports no error state when it is passed (a new
\* struct, or one whose last response had no error_class), a success payload
\* gives no error and no error state.
CallInto_CleanTargetReportsCurrentResponse ==
    (SuccessInto /\ ~HadError(call.before.LWAPIError)) =>
        /\ result.err = NoError
        /\ ~HadError(into.LWAPIError)

====
